---------------------------- MODULE Spec2Model ----------------------------
(***************************************************************************)
(* A model of setup.py, the build script of the testfixtures package.      *)
(*                                                                         *)
(* The script is one straight-line run: it reads tox.ini with a            *)
(* RawConfigParser, splits the `deps` option of section `testenv` into     *)
(* test_requires, appends 'tox' and the interpreter-dependent entries,     *)
(* reads the version file and the description file while it evaluates the  *)
(* keyword arguments of setup(), and calls setup().  Any exception ends    *)
(* the run.  What the library calls do (RawConfigParser.read and get,      *)
(* str.split, str.strip, open) is modelled after Python 2, the language    *)
(* of the script.                                                          *)
(*                                                                         *)
(* A Python string is modelled as a sequence of glyphs.  A glyph is either *)
(* one whitespace character or an indivisible piece of non-whitespace text *)
(* (the piece "tox" stands for the three characters t, o, x); the string   *)
(* literals of the script are one-piece strings.                           *)
(***************************************************************************)
EXTENDS Integers, Sequences, FiniteSets

VARIABLES
    fs,             \* the files the script reads (never written by the script)
    version_info,   \* sys.version_info[:2]
    pc,             \* the statement the run is at, "done" or "failed"
    config,         \* the RawConfigParser: its _defaults and _sections
    items,          \* the list the for loop of line 15 iterates over
    idx,            \* the position of that loop in items
    test_requires,  \* the list test_requires
    evaluated,      \* the keyword arguments of setup() computed so far
    calls,          \* the calls of setup() made, each with its arguments
    error,          \* the exception that ended the run, and where it was raised
    io              \* the paths the run has opened, in order

vars == <<fs, version_info, pc, config, items, idx, test_requires,
          evaluated, calls, error, io>>

-----------------------------------------------------------------------------
(* Bounds of the model.                                                    *)

\* the length of the version file plus the length of the `deps` option, in
\* glyphs, is at most MaxLen
MaxLen == 3
\* the newest interpreter considered is 2.MaxMinor
MaxMinor == 6

-----------------------------------------------------------------------------
(* Strings.                                                                *)

\* the characters str.split() and str.strip() treat as whitespace (the
\* vertical tab, which a TLA+ string cannot spell, is left out)
Whitespace == {" ", "\t", "\n", "\r", "\f"}

\* the glyphs the inputs are written with
InputGlyphs == {" ", "\n", "tox", "zope.component"}

Strings(n) == UNION {[1..k -> InputGlyphs] : k \in 0..n}

IsSpace(c) == c \in Whitespace

\* str.lstrip()
RECURSIVE LStrip(_)
LStrip(s) ==
    IF s = <<>> THEN <<>>
    ELSE IF IsSpace(Head(s)) THEN LStrip(Tail(s))
    ELSE s

\* str.rstrip()
RECURSIVE RStrip(_)
RStrip(s) ==
    IF s = <<>> THEN <<>>
    ELSE IF IsSpace(s[Len(s)]) THEN RStrip(SubSeq(s, 1, Len(s) - 1))
    ELSE s

\* a strip that forgets the end of the string: str.lstrip()
StripLeadingOnly(s) == LStrip(s)

\* str.strip()
Strip(s) == RStrip(LStrip(s))

\* the scan of str.split(): cur is the word being read, out the words found
RECURSIVE SplitScan(_, _, _)
SplitScan(s, cur, out) ==
    IF s = <<>>
    THEN IF cur = <<>> THEN out ELSE Append(out, cur)
    ELSE IF IsSpace(Head(s))
         THEN SplitScan(Tail(s), <<>>, IF cur = <<>> THEN out ELSE Append(out, cur))
         ELSE SplitScan(Tail(s), Append(cur, Head(s)), out)

\* str.split(' '): every single space separates, empty words are kept and
\* the other whitespace characters are part of the words
RECURSIVE SplitSepScan(_, _, _)
SplitSepScan(s, cur, out) ==
    IF s = <<>> THEN Append(out, cur)
    ELSE IF Head(s) = " "
         THEN SplitSepScan(Tail(s), <<>>, Append(out, cur))
         ELSE SplitSepScan(Tail(s), Append(cur, Head(s)), out)

SplitOnSpace(s) == SplitSepScan(s, <<>>, <<>>)

\* a split that drops the words it has already seen
RECURSIVE Dedupe(_, _)
Dedupe(ws, out) ==
    IF ws = <<>> THEN out
    ELSE IF \E k \in 1..Len(out) : out[k] = Head(ws)
         THEN Dedupe(Tail(ws), out)
         ELSE Dedupe(Tail(ws), Append(out, Head(ws)))

SplitUnique(s) == Dedupe(SplitScan(s, <<>>, <<>>), <<>>)

\* str.split() with no separator: the runs of non-whitespace, none empty
Split(s) == SplitScan(s, <<>>, <<>>)

-----------------------------------------------------------------------------
(* The literals of the script.                                             *)

name == <<"testfixtures">>

tox == <<"tox">>

\* the pinned entries without the last one
PinnedThree ==
    << <<"manuel<1.6">>,
       <<"zope.component<4.0.0dev">>,
       <<"zope.event<4.0.0dev">> >>

\* lines 21-24: the entries appended on an interpreter older than 2.6
PinnedEntries ==
    << <<"manuel<1.6">>,
       <<"zope.component<4.0.0dev">>,
       <<"zope.event<4.0.0dev">>,
       <<"zope.interface>=3.6.0,<4.0dev">> >>

\* line 27: the entry appended otherwise
OptionalEntry == <<"zope.component">>

\* classifiers that follow the interpreter the script runs on
ClassifiersByInterpreter ==
    << <<"Development Status :: 5 - Production/Stable">>,
       <<"Intended Audience :: Developers">>,
       <<"License :: OSI Approved :: MIT License">>,
       IF version_info[1] < 3
       THEN <<"Programming Language :: Python :: 2">>
       ELSE <<"Programming Language :: Python :: 3">> >>

\* lines 38-42
classifiers ==
    << <<"Development Status :: 5 - Production/Stable">>,
       <<"Intended Audience :: Developers">>,
       <<"License :: OSI Approved :: MIT License">> >>

\* the keyword arguments of setup() that are literals (name is line 8)
StaticMetadata ==
    [ name                 |-> name,
      author               |-> <<"Chris Withers">>,
      author_email         |-> <<"chris@simplistix.co.uk">>,
      license              |-> <<"MIT">>,
      description          |-> <<"A collection of helpers and mock objects for unit tests and doc tests.">>,
      url                  |-> <<"http://www.simplistix.co.uk/software/python/testfixtures">>,
      classifiers          |-> classifiers,
      zip_safe             |-> FALSE,
      include_package_data |-> TRUE ]

\* the paths the script opens
ToxIni == "tox.ini"
VersionTxt == "testfixtures/version.txt"
DescriptionTxt == "docs/description.txt"

-----------------------------------------------------------------------------
(* The interpreter.                                                        *)

\* Python's comparison of two pairs: lexicographic
TupleLess(a, b) == a[1] < b[1] \/ (a[1] = b[1] /\ a[2] < b[2])

\* the test with <= for <: sys.version_info[:2] <= (2, 6)
OldOrEqual(vi) == vi = <<2, 6>> \/ vi[1] < 2 \/ (vi[1] = 2 /\ vi[2] < 6)

\* line 20: sys.version_info[:2] < (2, 6)
OldInterpreter(vi) == TupleLess(vi, <<2, 6>>)

\* The script is Python 2 code: the module ConfigParser of line 5 and the
\* builtin file() of line 31 exist on no other major version.
PythonMajor == 2

VersionInfos == {PythonMajor} \X (4..MaxMinor)

-----------------------------------------------------------------------------
(* The configuration parser.  A dict is a function; the empty dict is the  *)
(* function of empty domain.                                               *)

EmptyDict == [k \in {} |-> <<>>]

Dict(keys, val) == [k \in keys |-> val]

\* RawConfigParser(): no defaults, no sections
NewParser == [defaults |-> EmptyDict, sections |-> EmptyDict]

\* RawConfigParser.read(path): a file that cannot be opened is skipped
\* silently, a file that can be opened fills _defaults and _sections
ParserRead(parser, file) ==
    IF file.exists
    THEN [defaults |-> file.defaults, sections |-> file.sections]
    ELSE parser

\* a lookup that answers the empty string where get() raises
ParserGetOrEmpty(parser, section, option) ==
    IF section \in DOMAIN parser.sections
       /\ option \in DOMAIN parser.sections[section]
    THEN [raised |-> "none", value |-> parser.sections[section][option]]
    ELSE IF option \in DOMAIN parser.defaults
    THEN [raised |-> "none", value |-> parser.defaults[option]]
    ELSE [raised |-> "none", value |-> <<>>]

\* RawConfigParser.get(section, option): the option of the section, else
\* the option of [DEFAULT]; NoSectionError when the section is unknown,
\* NoOptionError when neither holds the option
ParserGet(parser, section, option) ==
    IF section \notin DOMAIN parser.sections
    THEN [raised |-> "NoSectionError", value |-> <<>>]
    ELSE IF option \in DOMAIN parser.sections[section]
    THEN [raised |-> "none", value |-> parser.sections[section][option]]
    ELSE IF option \in DOMAIN parser.defaults
    THEN [raised |-> "none", value |-> parser.defaults[option]]
    ELSE [raised |-> "NoOptionError", value |-> <<>>]

\* open(path).read(): IOError when the file is absent
FileRead(file) ==
    IF file.exists
    THEN [raised |-> "none", value |-> file.content]
    ELSE [raised |-> "IOError", value |-> <<>>]

-----------------------------------------------------------------------------
(* The inputs of a run.                                                    *)

AbsentFile == [exists |-> FALSE, content |-> <<>>]

TextFiles(contents) ==
    {AbsentFile} \cup {[exists |-> TRUE, content |-> c] : c \in contents}

\* the value [DEFAULT] gives `deps` when it gives one
DefaultDeps == <<"mock">>

DefaultsDicts == {EmptyDict, Dict({"deps"}, DefaultDeps)}

\* The values the parser can hold for an option: the text after the '=',
\* stripped, then each continuation line, stripped and not empty, joined
\* by "\n".  Such a value does not end with whitespace, starts with none
\* but a "\n", and has no whitespace next to a "\n".
IsOptionValue(v) ==
    /\ v # <<>> => ~IsSpace(v[Len(v)])
    /\ v # <<>> /\ IsSpace(v[1]) => v[1] = "\n"
    /\ \A k \in 1..Len(v) :
            v[k] = "\n" =>
                /\ k < Len(v) /\ ~IsSpace(v[k + 1])
                /\ k > 1 => ~IsSpace(v[k - 1])

\* section testenv without a `deps` option, or with one of at most n glyphs
TestenvDicts(n) ==
    {EmptyDict} \cup {Dict({"deps"}, v) : v \in {w \in Strings(n) : IsOptionValue(w)}}

\* tox.ini: absent, or holding [DEFAULT] and possibly [testenv]
AbsentIni == [exists |-> FALSE, defaults |-> EmptyDict, sections |-> EmptyDict]

IniFiles(n) ==
    {AbsentIni} \cup
    {[exists |-> TRUE, defaults |-> d, sections |-> s] :
        d \in DefaultsDicts,
        s \in {EmptyDict} \cup {Dict({"testenv"}, t) : t \in TestenvDicts(n)}}

\* the glyphs of the `deps` option of [testenv] in tox.ini (none if absent)
DepsValue(ini) ==
    IF "testenv" \in DOMAIN ini.sections /\ "deps" \in DOMAIN ini.sections["testenv"]
    THEN ini.sections["testenv"]["deps"]
    ELSE <<>>

DescriptionSamples == {<<"Helpers", "\n">>}

\* what find_packages() may return
PackageLists == {<<>>, << <<"testfixtures">> >>}

-----------------------------------------------------------------------------
(* The run.                                                                *)

\* the order "read the version file, then the configuration"
StepsVersionFirst ==
    <<"read_version", "read_config", "get_deps", "loop", "append_tox", "branch",
      "read_description", "call_setup", "done">>

\* the description file read before the version file
StepsDescriptionFirst ==
    <<"read_config", "get_deps", "loop", "append_tox", "branch",
      "read_description", "read_version", "call_setup", "done">>

\* 'tox' appended after the interpreter-dependent entries
StepsToxLast ==
    <<"read_config", "get_deps", "loop", "branch", "append_tox",
      "read_version", "read_description", "call_setup", "done">>

\* the statements of the script, in source order
Steps ==
    <<"read_config", "get_deps", "loop", "append_tox", "branch",
      "read_version", "read_description", "call_setup", "done">>

\* the statement after statement s
After(s) == Steps[(CHOOSE k \in 1..Len(Steps) : Steps[k] = s) + 1]

None == <<>>
Some(v) == <<v>>

NoError == [type |-> "none", at |-> "none"]

\* lines 8-12: the state before tox.ini is read
Init ==
    /\ \E ini \in IniFiles(MaxLen), v \in TextFiles(Strings(MaxLen)),
          d \in TextFiles(DescriptionSamples) :
          /\ Len(DepsValue(ini)) + Len(v.content) <= MaxLen
          /\ fs = [tox |-> ini, version |-> v, description |-> d]
    /\ version_info \in VersionInfos
    /\ pc = Steps[1]
    /\ config = NewParser
    /\ items = <<>>
    /\ idx = 1
    /\ test_requires = <<>>
    /\ evaluated = [version |-> None, long_description |-> None]
    /\ calls = <<>>
    /\ error = NoError
    /\ io = <<>>

\* an exception nobody catches: the run ends
Raise(type) ==
    /\ error' = [type |-> type, at |-> pc]
    /\ pc' = "failed"

\* lines 13-14: config.read(tox.ini); test_requires = []
ReadConfig ==
    /\ pc = "read_config"
    /\ io' = Append(io, ToxIni)
    /\ config' = ParserRead(config, fs.tox)
    /\ test_requires' = <<>>
    /\ pc' = After(pc)
    /\ UNCHANGED <<fs, version_info, items, idx, evaluated, calls, error>>

\* line 15: config.get('testenv', 'deps').split()
GetDeps ==
    /\ pc = "get_deps"
    /\ ParserGet(config, "testenv", "deps").raised = "none"
    /\ items' = Split(ParserGet(config, "testenv", "deps").value)
    /\ idx' = 1
    /\ pc' = After(pc)
    /\ UNCHANGED <<fs, version_info, config, test_requires, evaluated, calls, error, io>>

\* line 15: config.get raises
GetDepsRaises ==
    /\ pc = "get_deps"
    /\ ParserGet(config, "testenv", "deps").raised # "none"
    /\ Raise(ParserGet(config, "testenv", "deps").raised)
    /\ UNCHANGED <<fs, version_info, config, items, idx, test_requires, evaluated, calls, io>>

\* lines 15-16: one iteration, test_requires.append(item)
LoopAppend ==
    /\ pc = "loop"
    /\ idx <= Len(items)
    /\ test_requires' = Append(test_requires, items[idx])
    /\ idx' = idx + 1
    /\ UNCHANGED <<fs, version_info, pc, config, items, evaluated, calls, error, io>>

\* line 15: the list is exhausted
LoopExit ==
    /\ pc = "loop"
    /\ idx > Len(items)
    /\ pc' = After(pc)
    /\ UNCHANGED <<fs, version_info, config, items, idx, test_requires, evaluated, calls, error, io>>

\* line 18: test_requires.append('tox')
AppendTox ==
    /\ pc = "append_tox"
    /\ test_requires' = Append(test_requires, tox)
    /\ pc' = After(pc)
    /\ UNCHANGED <<fs, version_info, config, items, idx, evaluated, calls, error, io>>

\* lines 20-24: the interpreter is older than 2.6
AppendPinned ==
    /\ pc = "branch"
    /\ OldInterpreter(version_info)
    /\ test_requires' = test_requires \o PinnedEntries
    /\ pc' = After(pc)
    /\ UNCHANGED <<fs, version_info, config, items, idx, evaluated, calls, error, io>>

\* lines 25-27: it is not
AppendOptional ==
    /\ pc = "branch"
    /\ ~OldInterpreter(version_info)
    /\ test_requires' = Append(test_requires, OptionalEntry)
    /\ pc' = After(pc)
    /\ UNCHANGED <<fs, version_info, config, items, idx, evaluated, calls, error, io>>

\* line 31: version=file(...).read().strip()
ReadVersion ==
    /\ pc = "read_version"
    /\ io' = Append(io, VersionTxt)
    /\ FileRead(fs.version).raised = "none"
    /\ evaluated' = [evaluated EXCEPT !.version = Some(Strip(FileRead(fs.version).value))]
    /\ pc' = After(pc)
    /\ UNCHANGED <<fs, version_info, config, items, idx, test_requires, calls, error>>

\* line 31: the version file cannot be opened
ReadVersionRaises ==
    /\ pc = "read_version"
    /\ io' = Append(io, VersionTxt)
    /\ FileRead(fs.version).raised # "none"
    /\ Raise(FileRead(fs.version).raised)
    /\ UNCHANGED <<fs, version_info, config, items, idx, test_requires, evaluated, calls>>

\* line 36: long_description=open(...).read()
ReadDescription ==
    /\ pc = "read_description"
    /\ io' = Append(io, DescriptionTxt)
    /\ FileRead(fs.description).raised = "none"
    /\ evaluated' = [evaluated EXCEPT !.long_description = Some(FileRead(fs.description).value)]
    /\ pc' = After(pc)
    /\ UNCHANGED <<fs, version_info, config, items, idx, test_requires, calls, error>>

\* line 36: the description file cannot be opened
ReadDescriptionRaises ==
    /\ pc = "read_description"
    /\ io' = Append(io, DescriptionTxt)
    /\ FileRead(fs.description).raised # "none"
    /\ Raise(FileRead(fs.description).raised)
    /\ UNCHANGED <<fs, version_info, config, items, idx, test_requires, evaluated, calls>>

\* lines 29-49: packages=find_packages() and the call of setup()
CallSetup ==
    /\ pc = "call_setup"
    /\ \E found \in PackageLists :
          calls' = Append(calls,
              [ static           |-> StaticMetadata,
                version          |-> evaluated.version[1],
                long_description |-> evaluated.long_description[1],
                packages         |-> found,
                extras_require   |-> [test |-> test_requires] ])
    /\ pc' = After(pc)
    /\ UNCHANGED <<fs, version_info, config, items, idx, test_requires, evaluated, error, io>>

Next ==
    \/ ReadConfig
    \/ GetDeps
    \/ GetDepsRaises
    \/ LoopAppend
    \/ LoopExit
    \/ AppendTox
    \/ AppendPinned
    \/ AppendOptional
    \/ ReadVersion
    \/ ReadVersionRaises
    \/ ReadDescription
    \/ ReadDescriptionRaises
    \/ CallSetup

Spec == Init /\ [][Next]_vars

-----------------------------------------------------------------------------
(* What the properties speak of.                                           *)

Range(s) == {s[k] : k \in 1..Len(s)}

Count(x, s) == Cardinality({k \in 1..Len(s) : s[k] = x})

\* the maximal runs of non-whitespace glyphs of s, as <<first, last>>
WordRuns(s) ==
    {r \in (1..Len(s)) \X (1..Len(s)) :
        /\ r[1] <= r[2]
        /\ \A k \in r[1]..r[2] : s[k] \notin Whitespace
        /\ (r[1] = 1 \/ s[r[1] - 1] \in Whitespace)
        /\ (r[2] = Len(s) \/ s[r[2] + 1] \in Whitespace)}

\* the whitespace-separated tokens of s, from left to right
Tokens(s) ==
    [k \in 1..Cardinality(WordRuns(s)) |->
        LET r == CHOOSE q \in WordRuns(s) :
                    Cardinality({o \in WordRuns(s) : o[1] < q[1]}) = k - 1
        IN  SubSeq(s, r[1], r[2])]

HasSection(ini) == ini.exists /\ "testenv" \in DOMAIN ini.sections

\* section testenv of the file holds a `deps` option of its own
HasKey(ini) == HasSection(ini) /\ "deps" \in DOMAIN ini.sections["testenv"]

\* [DEFAULT] of the file holds a `deps` option
HasDefault(ini) == ini.exists /\ "deps" \in DOMAIN ini.defaults

\* sys.version_info[:2] is below (2, 6)
Below26 == version_info[1] < 2 \/ (version_info[1] = 2 /\ version_info[2] < 6)

PinnedSet ==
    { <<"manuel<1.6">>, <<"zope.component<4.0.0dev">>,
      <<"zope.event<4.0.0dev">>, <<"zope.interface>=3.6.0,<4.0dev">> }

Unpinned == <<"zope.component">>

AfterBranch == {"read_version", "read_description", "call_setup", "done"}

\* the run has gone through the test of line 20
BranchDone == pc \in AfterBranch \/ (pc = "failed" /\ error.at \in AfterBranch)

\* the run is over
Terminated == pc \in {"done", "failed"}

\* what the script has appended to the list after 'tox'
AppendedAfterTox == SubSeq(test_requires, Len(items) + 2, Len(test_requires))

OpenedOnce(path) == Count(path, io) <= 1

-----------------------------------------------------------------------------
(* C1: the version passed to setup() is the content of the version file    *)
(* without its leading and trailing whitespace, the rest kept as read: it  *)
(* is the content minus a whitespace prefix and a whitespace suffix, and   *)
(* it neither starts nor ends with whitespace.                             *)
C1_VersionIsTrimmedContent ==
    \A n \in 1..Len(calls) :
        LET c == fs.version.content
            v == calls[n].version
        IN  \E i, j \in 0..Len(c) :
                /\ i + j <= Len(c)
                /\ v = SubSeq(c, i + 1, Len(c) - j)
                /\ \A k \in 1..i : c[k] \in Whitespace
                /\ \A k \in (Len(c) - j + 1)..Len(c) : c[k] \in Whitespace
                /\ (v = <<>> \/ (v[1] \notin Whitespace /\ v[Len(v)] \notin Whitespace))

\* setup() was called with a version file that starts and ends with whitespace
C1_Witness ==
    /\ Len(calls) = 1
    /\ Len(fs.version.content) = MaxLen
    /\ fs.version.content[1] \in Whitespace
    /\ fs.version.content[MaxLen] \in Whitespace
    /\ calls[1].version # <<>>

(* C2: once the list is assembled it starts with the tokens of the `deps`  *)
(* option of [testenv], in their order, and holds 'tox' after them,        *)
(* whatever the interpreter; setup() gets this list as                     *)
(* extras_require['test'].                                                 *)
C2_TokensInOrderThenTox ==
    HasKey(fs.tox) =>
        LET toks == Tokens(DepsValue(fs.tox))
            n == Len(toks)
        IN  /\ BranchDone =>
                /\ Len(test_requires) > n
                /\ SubSeq(test_requires, 1, n) = toks
                /\ \E k \in (n + 1)..Len(test_requires) : test_requires[k] = <<"tox">>
            /\ \A c \in 1..Len(calls) :
                /\ Len(calls[c].extras_require.test) > n
                /\ SubSeq(calls[c].extras_require.test, 1, n) = toks
                /\ \E k \in (n + 1)..Len(calls[c].extras_require.test) :
                        calls[c].extras_require.test[k] = <<"tox">>

\* setup() got a list made from a `deps` of two tokens
C2_Witness ==
    /\ Len(calls) = 1
    /\ HasKey(fs.tox)
    /\ Len(Tokens(DepsValue(fs.tox))) = 2
    /\ Len(calls[1].extras_require.test) >= 3

(* C3 as stated: at the end of every run, the pinned entries are in the    *)
(* list if the interpreter is below 2.6 and 'zope.component' was appended  *)
(* if it is not.                                                           *)
C3_Original ==
    Terminated =>
        /\ Below26 => PinnedSet \subseteq Range(test_requires)
        /\ ~Below26 => Unpinned \in Range(test_requires)

(* C3, amended: in every run that has gone through the test of line 20,    *)
(* the script has appended the pinned entries and not 'zope.component' if  *)
(* the interpreter is below 2.6, and 'zope.component' and no pinned entry  *)
(* if it is not: exactly one branch was taken.                             *)
C3_BranchesExclusive ==
    BranchDone =>
        /\ Below26 =>
            /\ PinnedSet \subseteq Range(AppendedAfterTox)
            /\ Unpinned \notin Range(AppendedAfterTox)
        /\ ~Below26 =>
            /\ Unpinned \in Range(AppendedAfterTox)
            /\ PinnedSet \cap Range(AppendedAfterTox) = {}

\* a run on interpreter 2.6, the oldest that is not old, took the other branch
C3_Witness ==
    /\ BranchDone
    /\ version_info = <<2, 6>>
    /\ AppendedAfterTox = <<Unpinned>>

(* C4 as stated: on an interpreter below 2.6 the script appends exactly    *)
(* three pinned entries.                                                   *)
C4_Original ==
    (BranchDone /\ Below26) =>
        Cardinality({k \in 1..Len(AppendedAfterTox) : AppendedAfterTox[k] \in PinnedSet}) = 3

(* C4, amended: on an interpreter below 2.6 the script appends exactly     *)
(* four pinned entries, and nothing else after 'tox'.                      *)
C4_FourPinned ==
    (BranchDone /\ Below26) =>
        /\ Cardinality({k \in 1..Len(AppendedAfterTox) : AppendedAfterTox[k] \in PinnedSet}) = 4
        /\ Len(AppendedAfterTox) = 4

\* the pinned branch was taken
C4_Witness ==
    /\ BranchDone
    /\ Below26
    /\ Len(AppendedAfterTox) > 0

\* an input the script needs is absent from the files
InputAbsent ==
    \/ ~fs.version.exists
    \/ ~fs.description.exists
    \/ ~fs.tox.exists
    \/ ~HasSection(fs.tox)
    \/ ~HasKey(fs.tox)

\* the same, a `deps` option counting as absent only when [DEFAULT] holds
\* none either
InputUnavailable ==
    \/ ~fs.version.exists
    \/ ~fs.description.exists
    \/ ~fs.tox.exists
    \/ ~HasSection(fs.tox)
    \/ (~HasKey(fs.tox) /\ ~HasDefault(fs.tox))

(* C5 as stated: when the version file, the description file, tox.ini, its *)
(* section testenv or the `deps` option of that section is absent, the run *)
(* never calls setup() and does not end well.                              *)
C5_Original ==
    InputAbsent => (calls = <<>> /\ pc # "done")

(* C5, amended: when the version file, the description file, tox.ini or    *)
(* its section testenv is absent, or `deps` is absent from both section    *)
(* testenv and [DEFAULT], the run ends in an exception nobody handles:     *)
(* setup() is never called, the run can only stop in the failed state, no  *)
(* file is opened twice and no value stands in for the one that is         *)
(* missing.                                                                *)
C5_FailsWithoutSetup ==
    InputUnavailable =>
        /\ calls = <<>>
        /\ pc \notin {"call_setup", "done"}
        /\ (~ENABLED Next) => (pc = "failed" /\ error.type \in {"NoSectionError", "NoOptionError", "IOError"})
        /\ OpenedOnce(ToxIni) /\ OpenedOnce(VersionTxt) /\ OpenedOnce(DescriptionTxt)
        /\ ~fs.version.exists => evaluated.version = <<>>
        /\ ~fs.description.exists => evaluated.long_description = <<>>
        /\ (~HasSection(fs.tox) \/ (~HasKey(fs.tox) /\ ~HasDefault(fs.tox))) =>
                (items = <<>> /\ test_requires = <<>>)

\* the run failed because `deps` is in neither the section nor [DEFAULT]
C5_Witness ==
    /\ HasSection(fs.tox)
    /\ ~HasKey(fs.tox)
    /\ ~HasDefault(fs.tox)
    /\ pc = "failed"
    /\ error.type = "NoOptionError"

(* C6: the steps come in one order.  The list is filled only once tox.ini  *)
(* has been read; the version file is opened only once the list holds the  *)
(* tokens, 'tox' and the interpreter-dependent entries; the description    *)
(* file is opened after the version file; setup() is called after all      *)
(* three reads, at most once; no file is opened twice; and the list setup()*)
(* was given is still the list.                                            *)
C6_OneOrderedPass ==
    /\ Len(calls) <= 1
    /\ OpenedOnce(ToxIni) /\ OpenedOnce(VersionTxt) /\ OpenedOnce(DescriptionTxt)
    /\ \E n \in 0..3 : io = SubSeq(<<ToxIni, VersionTxt, DescriptionTxt>>, 1, n)
    /\ (test_requires # <<>> \/ items # <<>>) => ToxIni \in Range(io)
    /\ Len(test_requires) > Len(items) =>
            SubSeq(test_requires, 1, Len(items)) = items
    /\ VersionTxt \in Range(io) =>
            /\ Len(test_requires) >= Len(items) + 2
            /\ SubSeq(test_requires, 1, Len(items)) = items
            /\ test_requires[Len(items) + 1] = <<"tox">>
            /\ (Unpinned \in Range(AppendedAfterTox)
                    \/ PinnedSet \subseteq Range(AppendedAfterTox))
    /\ calls # <<>> =>
            /\ io = <<ToxIni, VersionTxt, DescriptionTxt>>
            /\ calls[1].extras_require.test = test_requires
            /\ evaluated.version = <<calls[1].version>>
            /\ evaluated.long_description = <<calls[1].long_description>>

\* setup() has been called, after a loop of two iterations
C6_Witness ==
    /\ pc = "done"
    /\ Len(calls) = 1
    /\ Len(items) = 2
    /\ Len(io) = 3

(* C7: with t1..tn the tokens of the `deps` option of [testenv], the       *)
(* finished list is t1..tn, 'tox', 'zope.component' on an interpreter 2.6  *)
(* or above (n + 2 entries), and t1..tn, 'tox' and the four pinned entries *)
(* in source order below 2.6; with no token it starts with 'tox'.          *)
C7_ExactShape ==
    (BranchDone /\ HasKey(fs.tox)) =>
        LET toks == Tokens(DepsValue(fs.tox))
        IN  /\ ~Below26 =>
                /\ test_requires = toks \o << <<"tox">>, <<"zope.component">> >>
                /\ Len(test_requires) = Len(toks) + 2
            /\ Below26 =>
                test_requires = toks \o
                    << <<"tox">>, <<"manuel<1.6">>, <<"zope.component<4.0.0dev">>,
                       <<"zope.event<4.0.0dev">>, <<"zope.interface>=3.6.0,<4.0dev">> >>
            /\ (\A k \in 1..Len(DepsValue(fs.tox)) : DepsValue(fs.tox)[k] \in Whitespace) =>
                test_requires[1] = <<"tox">>
            /\ \A c \in 1..Len(calls) : calls[c].extras_require.test = test_requires

\* an empty `deps` on an old interpreter: 'tox', then the pinned entries
C7_Witness ==
    /\ pc = "done"
    /\ HasKey(fs.tox)
    /\ DepsValue(fs.tox) = <<>>
    /\ Below26
    /\ test_requires[1] = <<"tox">>
    /\ Len(test_requires) = 5

(* C8: whatever the files hold and whatever the interpreter, setup() gets  *)
(* the same literal metadata.                                              *)
C8_StaticMetadataFixed ==
    \A c \in 1..Len(calls) :
        calls[c].static =
            [ name                 |-> <<"testfixtures">>,
              author               |-> <<"Chris Withers">>,
              author_email         |-> <<"chris@simplistix.co.uk">>,
              license              |-> <<"MIT">>,
              description          |-> <<"A collection of helpers and mock objects for unit tests and doc tests.">>,
              url                  |-> <<"http://www.simplistix.co.uk/software/python/testfixtures">>,
              classifiers          |-> << <<"Development Status :: 5 - Production/Stable">>,
                                          <<"Intended Audience :: Developers">>,
                                          <<"License :: OSI Approved :: MIT License">> >>,
              zip_safe             |-> FALSE,
              include_package_data |-> TRUE ]

\* setup() was called on an old interpreter with inputs that are not empty
C8_Witness ==
    /\ Len(calls) = 1
    /\ Below26
    /\ calls[1].version # <<>>
    /\ Len(calls[1].extras_require.test) > 5
    /\ calls[1].packages # <<>>

\* the lookup of `deps` cannot succeed from what the file itself holds
LookupInputAbsent == ~fs.tox.exists \/ ~HasSection(fs.tox) \/ ~HasKey(fs.tox)

(* C9 as stated: when tox.ini, its section testenv or the `deps` option of *)
(* that section is absent, the run ends without having opened the version  *)
(* file or the description file.                                           *)
C9_Original ==
    LookupInputAbsent =>
        /\ VersionTxt \notin Range(io)
        /\ DescriptionTxt \notin Range(io)
        /\ pc # "done"

(* C9, amended: failures come in the order of the steps.  An absent        *)
(* tox.ini does not fail the read but the lookup (NoSectionError), as does *)
(* an absent section; a `deps` absent from both the section and [DEFAULT]  *)
(* fails the lookup (NoOptionError); a lookup that fails has opened        *)
(* neither the version file nor the description file; an absent version    *)
(* file ends the run before the description file is opened.                *)
C9_FailuresInStepOrder ==
    /\ error.at # "read_config"
    /\ (pc = "failed" /\ error.at = "get_deps") => io = <<ToxIni>>
    /\ (~fs.tox.exists \/ ~HasSection(fs.tox)) =>
            /\ pc \in {"read_config", "get_deps", "failed"}
            /\ pc = "failed" => error = [type |-> "NoSectionError", at |-> "get_deps"]
            /\ VersionTxt \notin Range(io) /\ DescriptionTxt \notin Range(io)
    /\ (HasSection(fs.tox) /\ ~HasKey(fs.tox) /\ ~HasDefault(fs.tox)) =>
            /\ pc \in {"read_config", "get_deps", "failed"}
            /\ pc = "failed" => error = [type |-> "NoOptionError", at |-> "get_deps"]
            /\ VersionTxt \notin Range(io) /\ DescriptionTxt \notin Range(io)
    /\ ~fs.version.exists =>
            /\ DescriptionTxt \notin Range(io)
            /\ pc \notin {"read_description", "call_setup", "done"}
            /\ pc = "failed" => error.at \in {"get_deps", "read_version"}
    /\ (pc = "failed" /\ error.at = "read_version") =>
            (error.type = "IOError" /\ io = <<ToxIni, VersionTxt>>)
    /\ (pc = "failed" /\ error.at = "read_description") =>
            (error.type = "IOError" /\ io = <<ToxIni, VersionTxt, DescriptionTxt>>)

\* tox.ini is absent and the run failed at the lookup, after the read
C9_Witness ==
    /\ ~fs.tox.exists
    /\ pc = "failed"
    /\ error.at = "get_deps"
    /\ io = <<ToxIni>>

\* how many times the script itself appends x
ScriptAppends(x) ==
    (IF x = <<"tox">> THEN 1 ELSE 0)
    + (IF Below26 /\ x \in PinnedSet THEN 1 ELSE 0)
    + (IF ~Below26 /\ x = Unpinned THEN 1 ELSE 0)

Literals == {<<"tox">>, Unpinned} \cup PinnedSet

\* every entry is in the finished list as often as among the tokens plus as
\* often as the script appends it
CountsAddUp ==
    \A x \in Range(test_requires) \cup Range(Tokens(DepsValue(fs.tox))) \cup Literals :
        Count(x, test_requires) = Count(x, Tokens(DepsValue(fs.tox))) + ScriptAppends(x)

(* C10 as stated: no entry is dropped or merged, and a `deps` that holds   *)
(* 'tox' or 'zope.component' gives a finished list that holds that entry   *)
(* more than once.                                                         *)
C10_Original ==
    (BranchDone /\ HasKey(fs.tox)) =>
        /\ CountsAddUp
        /\ \A x \in {<<"tox">>, <<"zope.component">>} :
                x \in Range(Tokens(DepsValue(fs.tox))) => Count(x, test_requires) > 1

(* C10, amended: no entry is dropped or merged: every string is in the     *)
(* finished list as often as among the tokens of `deps` plus as often as   *)
(* the script appends it; a `deps` that holds 'tox' gives a list that      *)
(* holds 'tox' more than once, and a `deps` that holds 'zope.component'    *)
(* gives a list that holds it more than once on an interpreter 2.6 or      *)
(* above (below 2.6 the script appends only the pinned                     *)
(* 'zope.component<4.0.0dev').                                             *)
C10_Multiplicity ==
    (BranchDone /\ HasKey(fs.tox)) =>
        /\ CountsAddUp
        /\ <<"tox">> \in Range(Tokens(DepsValue(fs.tox))) =>
                Count(<<"tox">>, test_requires) > 1
        /\ (~Below26 /\ <<"zope.component">> \in Range(Tokens(DepsValue(fs.tox)))) =>
                Count(<<"zope.component">>, test_requires) > 1
        /\ (Below26 /\ <<"zope.component">> \in Range(Tokens(DepsValue(fs.tox)))) =>
                Count(<<"zope.component">>, test_requires) =
                    Count(<<"zope.component">>, Tokens(DepsValue(fs.tox)))

\* `deps` holds 'tox' twice: the finished list holds it three times
C10_Witness ==
    /\ BranchDone
    /\ HasKey(fs.tox)
    /\ Count(<<"tox">>, Tokens(DepsValue(fs.tox))) = 2
    /\ Count(<<"tox">>, test_requires) = 3

=============================================================================
